---------------------------- MODULE Spec2Model ----------------------------
(***************************************************************************)
(* Element's scriptable Lua node (src/src/engine/nodes/LuaNode.cpp).       *)
(*                                                                         *)
(* A LuaNode owns one active script Context behind a lock.  The control    *)
(* thread replaces it with loadScript (validate, load a fresh Context,     *)
(* prepare it, swap it in under the lock, release and destroy the old      *)
(* one); the audio thread calls prepareToRender, render and                *)
(* releaseResources.  Spec is the node with both threads interleaved at    *)
(* every read and write of a field the two threads share and every call on *)
(* a Context; SpecCtx exercises a single                                   *)
(* Context (load, createPorts, prepare, render, release) and validate on   *)
(* scripts drawn from a bounded set.  SpecSeq is the node used by one      *)
(* caller at a time, with getState / setState between it and a second      *)
(* node, and with the destructor.                                          *)
(*                                                                         *)
(* A script text is represented by what the interpreter does with it: the  *)
(* entry points it defines and how each of them behaves.  Strings that the *)
(* code computes (port symbols and names) are sequences of one-character   *)
(* strings.                                                                *)
(***************************************************************************)
EXTENDS Integers, Sequences, FiniteSets, TLC

\* ------------------------------------------------------------------ bounds

\* Largest channel count a script of SpecCtx declares per port group.
MaxPorts == 2
\* Largest number of parameters a script of SpecCtx declares.
MaxParams == 2
\* Largest MIDI stream count a script of SpecCtx declares per direction.
MaxMidi == 1
\* Number of Contexts a run of Spec or SpecSeq may allocate (two are used by
\* construction).
MaxContexts == 4

\* ----------------------------------------------------------------- strings

UpperChars == << "A","B","C","D","E","F","G","H","I","J","K","L","M",
                 "N","O","P","Q","R","S","T","U","V","W","X","Y","Z" >>
LowerChars == << "a","b","c","d","e","f","g","h","i","j","k","l","m",
                 "n","o","p","q","r","s","t","u","v","w","x","y","z" >>
DigitChars == << "0","1","2","3","4","5","6","7","8","9" >>
WhiteChars == { " ", "\t", "\n", "\r", "\f" }

\* juce::String::toLowerCase, one character.
toLowerChar(c) ==
    IF \E i \in 1..Len(UpperChars) : UpperChars[i] = c
    THEN LowerChars[CHOOSE i \in 1..Len(UpperChars) : UpperChars[i] = c]
    ELSE c

\* juce::String::toLowerCase.
toLowerCase(s) == [ i \in 1..Len(s) |-> toLowerChar(s[i]) ]

\* juce::String::trim: leading and trailing whitespace removed.
RECURSIVE trimStart(_)
trimStart(s) ==
    IF s # <<>> /\ Head(s) \in WhiteChars THEN trimStart(Tail(s)) ELSE s

RECURSIVE trimEnd(_)
trimEnd(s) ==
    IF s # <<>> /\ s[Len(s)] \in WhiteChars
    THEN trimEnd(SubSeq(s, 1, Len(s) - 1)) ELSE s

trim(s) == trimEnd(trimStart(s))

\* juce::String::replace for one-character patterns.
replace(s, from, to) == [ i \in 1..Len(s) |-> IF s[i] = from THEN to ELSE s[i] ]

\* juce::String::operator<< (int): the decimal digits of n >= 0.
RECURSIVE IntToStr(_)
IntToStr(n) ==
    IF n < 10 THEN << DigitChars[n + 1] >>
    ELSE IntToStr(n \div 10) \o << DigitChars[(n % 10) + 1] >>

\* The text of a sequence of characters, to compare with literals.
RECURSIVE Text(_)
Text(s) == IF s = <<>> THEN "" ELSE Head(s) \o Text(Tail(s))

\* ----------------------------------------------------------------- results

\* juce::Result::ok() and juce::Result::fail (message).
ResultOk == [ ok |-> TRUE, msg |-> "" ]
ResultFail(m) == [ ok |-> FALSE, msg |-> m ]

\* --------------------------------------------------------------- port list

\* kv::PortList::add as the code calls it: one descriptor appended.
PortListAdd(ports, type, index, channel, symbol, name, isInput) ==
    Append(ports, [ type |-> type, index |-> index, channel |-> channel,
                    symbol |-> symbol, name |-> name, isInput |-> isInput ])

\* kv::PortList::size (type, isInput) as validate uses it.
PortListSize(ports, type, isInput) ==
    Cardinality({ i \in 1..Len(ports) :
                    ports[i].type = type /\ ports[i].isInput = isInput })


\* ----------------------------------------------------------------- scripts

(***************************************************************************)
(* A script text, by its behaviour under the interpreter:                  *)
(*   text     the identity of the text ("" is the empty text)              *)
(*   exec     running the chunk: "ok", "error", or "env" (it depends on    *)
(*            the environment, e.g. through dofile of the base library,    *)
(*            and may differ between two loads of the same text); a chunk  *)
(*            that raises does so after the statements that define its     *)
(*            entry points                                                 *)
(*   io       node_io_ports: "none" (not defined), "map" (returns a table  *)
(*            with the counts as fields), "array" (returns a table whose   *)
(*            first element holds the counts), "raise" (raises an error)   *)
(*   decl     the channel counts the script declares                       *)
(*   params   node_params: "none", "list", "raise"                         *)
(*   plist    the declared parameters; a name is <<>> when the field is    *)
(*            missing and <<chars>> otherwise; flow is "input", "output"   *)
(*            or "nil" (missing)                                           *)
(*   pfail    0, or the position of the parameter whose reading raises     *)
(*   prepare, release   "none", "ok", "raise"; prepare is also "oneRate":  *)
(*            node_prepare raises unless it is given the rate 44100        *)
(*   render   "none", "ok", "raise"; raiseAt is the number of the call on  *)
(*            one interpreter at which node_render raises                  *)
(***************************************************************************)
NoDecl == [ audio_ins |-> 0, audio_outs |-> 0, midi_ins |-> 0, midi_outs |-> 0 ]

\* An interpreter state in which no script has run.
NoLua ==
    [ text |-> "", exec |-> "ok", io |-> "none", decl |-> NoDecl,
      params |-> "none", plist |-> <<>>, pfail |-> 0,
      prepare |-> "none", release |-> "none", render |-> "none", raiseAt |-> 0 ]

\* The built-in template script.
defaultScript ==
    [ text |-> "default", exec |-> "ok", io |-> "map",
      decl |-> [ audio_ins |-> 2, audio_outs |-> 2, midi_ins |-> 1, midi_outs |-> 1 ],
      params |-> "list",
      plist |-> << [ name |-> << <<"V","o","l","u","m","e">> >>, flow |-> "input" ] >>,
      pfail |-> 0,
      prepare |-> "ok", release |-> "ok", render |-> "ok", raiseAt |-> 0 ]

\* The messages of the errors the entry points raise.
ErrorIn(fn) == "error in " \o fn

\* The table node_io_ports returns: its array size, the counts found as
\* fields of the table itself and those found in its first element
\* (get_or (0) reads a missing field as 0).
IoPortsTable(lua) ==
    IF lua.io = "array"
    THEN [ size |-> 1, top |-> NoDecl, first |-> lua.decl ]
    ELSE [ size |-> 0, top |-> lua.decl, first |-> NoDecl ]

\* ----------------------------------------------------------------- Context

\* The rate and block size validate prepares its Context with.
ValidateRate == 44100
ValidateBlock == 1024

\* A Context as constructed: not loaded, no render function bound.
NewContext ==
    [ loaded |-> FALSE, lua |-> NoLua, renderf |-> FALSE, renderstdf |-> FALSE,
      nrender |-> 0, life |-> "unloaded", rate |-> 0, block |-> 0,
      freedAt |-> 0 ]

ready(ctx) == ctx.loaded

\* state.script, line 106: what the interpreter holds after the chunk of
\* script has run in an interpreter that held lua.  The entry points the
\* chunk defines replace those of the same name and the others stay as they
\* were, whether the chunk then raises or not: an error does not undo what
\* the chunk has defined.
RunChunk(lua, script) ==
    [ text |-> script.text, exec |-> script.exec,
      io |-> IF script.io # "none" THEN script.io ELSE lua.io,
      decl |-> IF script.io # "none" THEN script.decl ELSE lua.decl,
      params |-> IF script.params # "none" THEN script.params ELSE lua.params,
      plist |-> IF script.params # "none" THEN script.plist ELSE lua.plist,
      pfail |-> IF script.params # "none" THEN script.pfail ELSE lua.pfail,
      prepare |-> IF script.prepare # "none" THEN script.prepare ELSE lua.prepare,
      release |-> IF script.release # "none" THEN script.release ELSE lua.release,
      render |-> IF script.render # "none" THEN script.render ELSE lua.render,
      raiseAt |-> IF script.render # "none" THEN script.raiseAt ELSE lua.raiseAt ]

\* Context::load without the check of ready(): a loaded Context loads again.
Context_load_NoGuard(ctx, script, envOk) ==
    LET lua == RunChunk(ctx.lua, script)
    IN IF script.exec = "ok" \/ (script.exec = "env" /\ envOk)
       THEN [ ctx |-> [ ctx EXCEPT !.loaded = TRUE, !.lua = lua,
                                   !.renderf = (lua.render # "none"),
                                   !.renderstdf = TRUE,
                                   !.life = "loaded" ],
              result |-> ResultOk ]
       ELSE [ ctx |-> [ ctx EXCEPT !.loaded = FALSE, !.lua = lua,
                                   !.renderstdf = FALSE ],
              result |-> ResultFail("Couldn't load Lua script") ]

\* Context::load.  envOk is the outcome of a chunk whose execution depends
\* on the environment.  A chunk that fails throws; the catch clears loaded
\* and renderstdf, and what the chunk defined stays in the interpreter for a
\* later load to find.  renderf is bound to whatever node_render is then, nil
\* included, and renderstdf wraps renderf.
Context_load(ctx, script, envOk) ==
    IF ready(ctx)
    THEN [ ctx |-> ctx, result |-> ResultFail("Script already loaded") ]
    ELSE LET lua == RunChunk(ctx.lua, script)
         IN IF script.exec = "ok" \/ (script.exec = "env" /\ envOk)
            THEN [ ctx |-> [ ctx EXCEPT !.loaded = TRUE, !.lua = lua,
                                        !.renderf = (lua.render # "none"),
                                        !.renderstdf = TRUE,
                                        !.life = "loaded" ],
                   result |-> ResultOk ]
            ELSE [ ctx |-> [ ctx EXCEPT !.loaded = FALSE, !.lua = lua,
                                        !.renderstdf = FALSE ],
                   result |-> ResultFail("Couldn't load Lua script") ]

\* Context::prepare: [ctx, threw, msg].
Context_prepare(ctx, rate, block) ==
    IF ~ ready(ctx)
    THEN [ ctx |-> ctx, threw |-> FALSE, msg |-> "" ]
    ELSE IF \/ ctx.lua.prepare = "raise"
            \/ ctx.lua.prepare = "oneRate" /\ rate # ValidateRate
         THEN [ ctx |-> ctx, threw |-> TRUE, msg |-> ErrorIn("node_prepare") ]
         ELSE [ ctx |-> [ ctx EXCEPT !.life = "prepared", !.rate = rate,
                                     !.block = block ],
                threw |-> FALSE, msg |-> "" ]

\* Context::release without the check of ready().
Context_release_NoReadyCheck(ctx) ==
    IF ctx.lua.release = "raise"
    THEN [ ctx |-> ctx, threw |-> TRUE, msg |-> ErrorIn("node_release") ]
    ELSE [ ctx |-> [ ctx EXCEPT !.life = "released" ],
           threw |-> FALSE, msg |-> "" ]

\* Context::release: [ctx, threw, msg].
Context_release(ctx) ==
    IF ~ ready(ctx)
    THEN [ ctx |-> ctx, threw |-> FALSE, msg |-> "" ]
    ELSE IF ctx.lua.release = "raise"
         THEN [ ctx |-> ctx, threw |-> TRUE, msg |-> ErrorIn("node_release") ]
         ELSE [ ctx |-> [ ctx EXCEPT !.life = "released" ],
                threw |-> FALSE, msg |-> "" ]

\* Largest call number at which a script's node_render raises.
RenderCountCap == 2

\* One call of the bound render function (renderf, or renderstdf which
\* wraps it): calling nil raises, and so does node_render at its raiseAt-th
\* call.  The count is the state of a script that raises at some call: it
\* is kept for those scripts only, up to RenderCountCap.
CallRenderFunction(ctx) ==
    LET n == ctx.nrender + 1
        counted == IF ctx.lua.render = "raise"
                   THEN [ ctx EXCEPT !.nrender = IF n > RenderCountCap
                                                  THEN RenderCountCap ELSE n ]
                   ELSE ctx
    IN IF ~ ctx.renderf
       THEN [ ctx |-> ctx, threw |-> TRUE, msg |-> ErrorIn("call of nil") ]
       ELSE IF ctx.lua.render = "raise" /\ n = ctx.lua.raiseAt
            THEN [ ctx |-> counted, threw |-> TRUE, msg |-> ErrorIn("node_render") ]
            ELSE [ ctx |-> counted, threw |-> FALSE, msg |-> "" ]

\* Context::render (noexcept): calls renderstdf whenever loaded.  threw
\* means an exception reached the noexcept boundary.
Context_render(ctx) ==
    IF ctx.loaded
    THEN CallRenderFunction(ctx)
    ELSE [ ctx |-> ctx, threw |-> FALSE, msg |-> "" ]


\* One of the four loops of addIOPorts: count ports of one group, slugs and
\* names numbered from 1, index and channel incremented per port.
RECURSIVE addIOPortsLoop(_, _, _, _, _, _, _, _, _)
addIOPortsLoop(ports, type, slugPrefix, namePrefix, isInput, i, count, index, channel) ==
    IF i < count
    THEN LET slug == slugPrefix \o IntToStr(i + 1)
             name == namePrefix \o IntToStr(i + 1)
         IN addIOPortsLoop(
                PortListAdd(ports, type, index, channel, slug, name, isInput),
                type, slugPrefix, namePrefix, isInput, i + 1, count,
                index + 1, channel + 1)
    ELSE [ ports |-> ports, index |-> index ]

\* Context::addIOPorts: [ports, threw, msg].  The call of node_io_ports is
\* outside the try block, so an error it raises leaves the function.
addIOPorts(ctx, ports) ==
    IF ctx.lua.io = "none"
    THEN [ ports |-> ports, threw |-> FALSE, msg |-> "" ]
    ELSE IF ctx.lua.io = "raise"
    THEN [ ports |-> ports, threw |-> TRUE, msg |-> ErrorIn("node_io_ports") ]
    ELSE
      LET t == IoPortsTable(ctx.lua)
          c == IF t.size = 0 THEN t.top ELSE t.first
          ai == addIOPortsLoop(ports, "Audio", <<"i","n","_">>, <<"I","n"," ">>,
                               TRUE, 0, c.audio_ins, 0, 0)
          ao == addIOPortsLoop(ai.ports, "Audio", <<"o","u","t","_">>,
                               <<"O","u","t"," ">>,
                               FALSE, 0, c.audio_outs, ai.index, 0)
          mi == addIOPortsLoop(ao.ports, "Midi", <<"m","i","d","i","_","i","n","_">>,
                               <<"M","I","D","I"," ","I","n"," ">>,
                               TRUE, 0, c.midi_ins, ao.index, 0)
          mo == addIOPortsLoop(mi.ports, "Midi",
                               <<"m","i","d","i","_","o","u","t","_">>,
                               <<"M","I","D","I"," ","O","u","t"," ">>,
                               FALSE, 0, c.midi_outs, mi.index, 0)
      IN [ ports |-> mo.ports, threw |-> FALSE, msg |-> "" ]

\* ParameterSymbol without the lower-casing.
ParameterSymbol_NoLowerCase(name) == replace(trim(name), " ", "_")

\* The symbol of a parameter: its name trimmed, lower-cased, spaces replaced.
ParameterSymbol(name) == replace(toLowerCase(trim(name)), " ", "_")

\* The loop of addParameters over params[i + 1]; an error raised while a
\* parameter is read ends the loop (the catch swallows it).
RECURSIVE addParametersLoop(_, _, _, _, _, _)
addParametersLoop(lua, ports, i, index, inChan, outChan) ==
    IF i < Len(lua.plist) /\ lua.pfail # i + 1
    THEN LET p == lua.plist[i + 1]
             name == IF p.name = <<>> THEN <<"P","a","r","a","m">> ELSE p.name[1]
             sym == ParameterSymbol(name)
             flow == IF p.flow = "nil" THEN "input" ELSE p.flow
             isInput == (flow = "input")
             channel == IF isInput THEN inChan ELSE outChan
         IN addParametersLoop(
                lua,
                PortListAdd(ports, "Control", index, channel, sym, name, isInput),
                i + 1, index + 1,
                IF isInput THEN inChan + 1 ELSE inChan,
                IF isInput THEN outChan ELSE outChan + 1)
    ELSE ports

\* addParameters numbering the Control ports from 0 instead of ports.size().
addParameters_IndexFromZero(ctx, ports) ==
    IF ctx.lua.params = "list"
    THEN addParametersLoop(ctx.lua, ports, 0, 0, 0, 0)
    ELSE ports

\* Context::addParameters: the ports with the Control ports appended; an
\* error of node_params itself is swallowed as well.
addParameters(ctx, ports) ==
    IF ctx.lua.params = "list"
    THEN addParametersLoop(ctx.lua, ports, 0, Len(ports), 0, 0)
    ELSE ports

\* Context::createPorts: [ports, threw, msg].
Context_createPorts(ctx, ports) ==
    IF ~ ready(ctx)
    THEN [ ports |-> ports, threw |-> FALSE, msg |-> "" ]
    ELSE LET io == addIOPorts(ctx, ports)
         IN IF io.threw THEN io
            ELSE [ ports |-> addParameters(ctx, io.ports),
                   threw |-> FALSE, msg |-> "" ]

Max(a, b) == IF a > b THEN a ELSE b


\* Context::validate on a fresh Context.  The body after the load runs in a
\* try block: an error of createPorts, prepare, the direct call of renderf
\* (made only when renderf is valid) or release becomes the failure.
Context_validate(script, envOk) ==
    IF script.text = ""
    THEN ResultFail("script contains no code")
    ELSE
      LET l == Context_load(NewContext, script, envOk)
      IN IF ~ l.result.ok THEN l.result
         ELSE IF ~ ready(l.ctx) THEN ResultFail("could not parse script")
         ELSE
           LET cp == Context_createPorts(l.ctx, <<>>)
               nchans == Max(PortListSize(cp.ports, "Audio", TRUE),
                             PortListSize(cp.ports, "Audio", FALSE))
               nmidi == Max(PortListSize(cp.ports, "Midi", TRUE),
                            PortListSize(cp.ports, "Midi", FALSE))
               pr == Context_prepare(l.ctx, ValidateRate, ValidateBlock)
               rn == IF pr.ctx.renderf THEN CallRenderFunction(pr.ctx)
                     ELSE [ ctx |-> pr.ctx, threw |-> FALSE, msg |-> "" ]
               rl == Context_release(rn.ctx)
           IN IF cp.threw THEN ResultFail(cp.msg)
              ELSE IF pr.threw THEN ResultFail(pr.msg)
              ELSE IF rn.threw THEN ResultFail(rn.msg)
              ELSE IF rl.threw THEN ResultFail(rl.msg)
              ELSE ResultOk


\* -------------------------------------------------------------------- node

VARIABLES
    context,      \* LuaNode::context: the heap address of the active Context
    script,       \* LuaNode::script: the committed script text
    draftScript,  \* LuaNode::draftScript
    prepared,     \* LuaNode::prepared
    sampleRate,   \* LuaNode::sampleRate
    blockSize,    \* LuaNode::blockSize
    ports,        \* GraphNode::ports, the node's PortList
    lock,         \* LuaNode::lock: "none", or the thread holding it
    heap,         \* the Contexts allocated so far, by address 1..Len(heap)
    ctlPc,        \* control thread: its place in loadScript / createPorts
    newScript,    \* loadScript's argument
    newContext,   \* loadScript's local unique_ptr (0 is nullptr)
    result,       \* loadScript's local result, and the value it returned
    atCall,       \* the node's script, draft and context when loadScript was called
    prepareArgs,  \* loadScript, line 380: the arguments of prepare read so far
    audPc,        \* audio thread: its place in prepareToRender / render / releaseResources
    audCtx,       \* the Context the audio thread's call in progress runs on
    terminated,   \* std::terminate was called
    caller,       \* "setState" while loadScript runs inside setState, else "none"
    changeSent,   \* the setState call in progress or last made sent a change message
    stateData,    \* the MemoryBlock getState wrote the peer node's state to
    peerScript,   \* the committed script text of a second LuaNode, the peer
    portsAtCall,  \* the size of the PortList when createPorts was called on a
                  \* prepared node (-1 otherwise)
    hookCall,     \* the call prepareToRender / releaseResources forwarded last
                  \* to the active Context: "none", "prepare" or "release"
    tScript,      \* SpecCtx: the script under test
    tCtx,         \* SpecCtx: the Context under test
    tPorts,       \* SpecCtx: the PortList handed to createPorts
    tPc,          \* SpecCtx: the next call of the lifecycle
    tVal,         \* SpecCtx: what validate returned for the script
    tErr,         \* SpecCtx: the message of the error a lifecycle call raised
    tRes,         \* SpecCtx: what the last load call on the Context returned
    tLoadCalls,   \* SpecCtx: the number of load calls made on the Context
    tLoadOks      \* SpecCtx: the number of those that succeeded

nodeVars == << context, script, draftScript, prepared, sampleRate, blockSize,
               ports, lock, heap, ctlPc, newScript, newContext, result, atCall,
               prepareArgs, audPc, audCtx, terminated,
               caller, changeSent, stateData, peerScript, portsAtCall, hookCall >>
\* The node's variables but terminated.
runVars == << context, script, draftScript, prepared, sampleRate, blockSize,
              ports, lock, heap, ctlPc, newScript, newContext, result, atCall,
              prepareArgs, audPc, audCtx,
              caller, changeSent, stateData, peerScript, portsAtCall, hookCall >>
hostVars == << caller, changeSent, stateData, peerScript, portsAtCall, hookCall >>
ctxVars == << tScript, tCtx, tPorts, tPc, tVal, tErr, tRes, tLoadCalls, tLoadOks >>
vars == << nodeVars, ctxVars >>

\* A MemoryBlock nothing was written to: no ValueTree can be read from it.
EmptyBlock == [ type |-> "", props |-> <<>> ]

\* A destroyed Context: the address stays, the object is gone.
Destroyed == [ NewContext EXCEPT !.life = "destroyed" ]

\* unique_ptr::reset on the Context at address c.  freedAt records how many
\* Contexts had been allocated when the memory was given back.
Reset(h, c) == [ h EXCEPT ![c] = [ Destroyed EXCEPT !.freedAt = Len(h) ] ]

alive(c) == c \in 1..Len(heap) /\ heap[c].life # "destroyed"

\* The Contexts that can lie in the memory the destroyed Context a had: those
\* allocated after a was destroyed.  A call through a pointer to a lands on
\* one of them when the allocator has handed the block out again.
Reusing(a) == { c \in 1..Len(heap) : alive(c) /\ c > heap[a].freedAt }

\* An argument of prepare that loadScript has not read yet, and the
\* arguments before any is read.
NotRead == -1
NoArgs == [ rate |-> NotRead, block |-> NotRead ]

\* The (sample rate, block size) pairs the host prepares the node with.
Formats == { << 44100, 512 >>, << 48000, 1024 >> }

\* Script texts the control thread loads in Spec.
brokenScript == [ NoLua EXCEPT !.text = "broken", !.exec = "error" ]
flakyScript ==
    [ text |-> "flaky", exec |-> "env", io |-> "array",
      decl |-> [ audio_ins |-> 1, audio_outs |-> 1, midi_ins |-> 0, midi_outs |-> 0 ],
      params |-> "none", plist |-> <<>>, pfail |-> 0,
      prepare |-> "none", release |-> "none", render |-> "ok", raiseAt |-> 0 ]
noRenderScript ==
    [ defaultScript EXCEPT !.text = "norender", !.render = "none" ]
firstFaultScript ==
    [ defaultScript EXCEPT !.text = "firstfault", !.render = "raise", !.raiseAt = 1 ]
lateFaultScript ==
    [ defaultScript EXCEPT !.text = "latefault", !.render = "raise", !.raiseAt = 2 ]
oneRateScript ==
    [ defaultScript EXCEPT !.text = "onerate", !.prepare = "oneRate" ]

NodeScripts == { NoLua, defaultScript, brokenScript, flakyScript, noRenderScript,
                 firstFaultScript, lateFaultScript, oneRateScript }

Snapshot == [ script |-> script, draft |-> draftScript, context |-> context,
              allocated |-> Len(heap) ]

\* LuaNode::LuaNode: an empty Context is created, loadScript (defaultScript)
\* validates the default script, loads it into a second Context, swaps that
\* in and destroys the first.  Nothing runs beside the constructor.
NodeInit ==
    /\ context = 2
    /\ script = defaultScript
    /\ draftScript = defaultScript
    /\ prepared = FALSE
    /\ sampleRate = 0
    /\ blockSize = 0
    /\ ports = <<>>
    /\ lock = "none"
    /\ heap = Reset(<< NewContext,
                       Context_load(NewContext, defaultScript, TRUE).ctx >>, 1)
    /\ ctlPc = "idle"
    /\ newScript = NoLua
    /\ newContext = 0
    /\ result = Context_validate(defaultScript, TRUE)
    /\ atCall = [ script |-> NoLua, draft |-> NoLua, context |-> 1, allocated |-> 1 ]
    /\ prepareArgs = NoArgs
    /\ audPc = "idle"
    /\ audCtx = 0
    /\ terminated = FALSE
    /\ caller = "none"
    /\ changeSent = FALSE
    /\ stateData = EmptyBlock
    /\ peerScript = defaultScript
    /\ portsAtCall = -1
    /\ hookCall = "none"

CtxIdle ==
    /\ tScript = NoLua
    /\ tCtx = NewContext
    /\ tPorts = <<>>
    /\ tPc = "off"
    /\ tVal = ResultOk
    /\ tErr = ""
    /\ tRes = ResultOk
    /\ tLoadCalls = 0
    /\ tLoadOks = 0

Init == NodeInit /\ CtxIdle

\* ---- control thread: LuaNode::loadScript

\* Where loadScript returns to: line 439 of setState, or the caller outside.
ReturnPc == IF caller = "setState" THEN "sendChange" ELSE "idle"

\* loadScript_validate with a validate that runs prepare and release on the
\* node's active Context instead of a Context of its own.
loadScript_validate_OnActive(s, envOk) ==
    /\ ~ terminated
    /\ \/ ctlPc = "idle"
       \/ ctlPc = "setState" /\ s = newScript
    /\ Len(heap) < MaxContexts
    /\ atCall' = Snapshot
    /\ heap' = [ heap EXCEPT ![context] =
                   Context_release(
                       Context_prepare(@, ValidateRate, ValidateBlock).ctx).ctx ]
    /\ LET v == Context_validate(s, envOk)
       IN /\ result' = v
          /\ IF v.ok
             THEN newScript' = s /\ ctlPc' = "load"
             ELSE newScript' = NoLua /\ ctlPc' = ReturnPc
    /\ UNCHANGED << context, script, draftScript, prepared, sampleRate, blockSize,
                    ports, lock, newContext, prepareArgs, audPc, audCtx,
                    terminated >>
    /\ UNCHANGED << hostVars, ctxVars >>

\* loadScript, lines 366-368: validate; a failure is returned at once.
loadScript_validate(s, envOk) ==
    /\ ~ terminated
    /\ \/ ctlPc = "idle"
       \/ ctlPc = "setState" /\ s = newScript
    /\ Len(heap) < MaxContexts
    /\ atCall' = Snapshot
    /\ LET v == Context_validate(s, envOk)
       IN /\ result' = v
          /\ IF v.ok
             THEN newScript' = s /\ ctlPc' = "load"
             ELSE newScript' = NoLua /\ ctlPc' = ReturnPc
    /\ UNCHANGED << context, script, draftScript, prepared, sampleRate, blockSize,
                    ports, lock, heap, newContext, prepareArgs, audPc, audCtx,
                    terminated >>
    /\ UNCHANGED << hostVars, ctxVars >>

\* loadScript_load committing the text whatever the result of the load.
loadScript_load_Unguarded(envOk) ==
    /\ ~ terminated
    /\ ctlPc = "load"
    /\ LET l == Context_load(NewContext, newScript, envOk)
       IN /\ heap' = Append(heap, l.ctx)
          /\ newContext' = Len(heap) + 1
          /\ result' = l.result
          /\ script' = newScript
          /\ draftScript' = newScript
          /\ ctlPc' = IF l.result.ok THEN "checkPrepared" ELSE "release"
    /\ UNCHANGED << context, prepared, sampleRate, blockSize, ports, lock,
                    newScript, atCall, prepareArgs, audPc, audCtx, terminated >>
    /\ UNCHANGED << hostVars, ctxVars >>

\* loadScript, lines 373-378: a new Context loads the text; on success the
\* committed and the draft text are set.
loadScript_load(envOk) ==
    /\ ~ terminated
    /\ ctlPc = "load"
    /\ LET l == Context_load(NewContext, newScript, envOk)
       IN /\ heap' = Append(heap, l.ctx)
          /\ newContext' = Len(heap) + 1
          /\ result' = l.result
          /\ IF l.result.ok
             THEN /\ script' = newScript
                  /\ draftScript' = newScript
                  /\ ctlPc' = "checkPrepared"
             ELSE /\ UNCHANGED << script, draftScript >>
                  /\ ctlPc' = "release"
    /\ UNCHANGED << context, prepared, sampleRate, blockSize, ports, lock,
                    newScript, atCall, prepareArgs, audPc, audCtx, terminated >>
    /\ UNCHANGED << hostVars, ctxVars >>

\* loadScript, line 379: prepared is read.  The audio thread writes prepared,
\* sampleRate and blockSize with no lock held, so each read of loadScript is
\* a step of its own.
loadScript_checkPrepared ==
    /\ ~ terminated
    /\ ctlPc = "checkPrepared"
    /\ ctlPc' = IF prepared THEN "readArgs" ELSE "lock"
    /\ UNCHANGED << context, script, draftScript, prepared, sampleRate, blockSize,
                    ports, lock, heap, newScript, newContext, result, atCall,
                    prepareArgs, audPc, audCtx, terminated >>
    /\ UNCHANGED << hostVars, ctxVars >>

\* loadScript, line 380: the argument of prepare that is evaluated first is
\* read from the node; the order of evaluation is the compiler's.
loadScript_readArg(first) ==
    /\ ~ terminated
    /\ ctlPc = "readArgs"
    /\ prepareArgs' = IF first = "rate"
                      THEN [ rate |-> sampleRate, block |-> NotRead ]
                      ELSE [ rate |-> NotRead, block |-> blockSize ]
    /\ ctlPc' = "prepare"
    /\ UNCHANGED << context, script, draftScript, prepared, sampleRate, blockSize,
                    ports, lock, heap, newScript, newContext, result, atCall,
                    audPc, audCtx, terminated >>
    /\ UNCHANGED << hostVars, ctxVars >>

\* loadScript, line 380: the other argument is read and the new Context is
\* prepared with the two values.  The script passed validate's prepare at
\* validate's rate; at the rate read here its node_prepare may raise, and
\* nothing in loadScript catches the error.
loadScript_prepare ==
    /\ ~ terminated
    /\ ctlPc = "prepare"
    /\ LET rate == IF prepareArgs.rate = NotRead THEN sampleRate
                   ELSE prepareArgs.rate
           block == IF prepareArgs.block = NotRead THEN blockSize
                    ELSE prepareArgs.block
           pr == Context_prepare(heap[newContext], rate, block)
       IN /\ heap' = [ heap EXCEPT ![newContext] = pr.ctx ]
          /\ ctlPc' = IF pr.threw THEN "unwinding" ELSE "preparing"
    /\ prepareArgs' = NoArgs
    /\ UNCHANGED << context, script, draftScript, prepared, sampleRate, blockSize,
                    ports, lock, newScript, newContext, result, atCall,
                    audPc, audCtx, terminated >>
    /\ UNCHANGED << hostVars, ctxVars >>

\* The error of newContext->prepare leaves loadScript (and setState, when it
\* is the caller, before its sendChangeMessage): the local newContext is
\* destroyed by the unwinding, without release; no result is returned.
loadScript_throw ==
    /\ ~ terminated
    /\ ctlPc = "unwinding"
    /\ heap' = Reset(heap, newContext)
    /\ newContext' = 0
    /\ newScript' = NoLua
    /\ caller' = "none"
    /\ ctlPc' = "idle"
    /\ UNCHANGED << context, script, draftScript, prepared, sampleRate, blockSize,
                    ports, lock, result, atCall, prepareArgs, audPc, audCtx, terminated,
                    changeSent, stateData, peerScript, portsAtCall, hookCall >>
    /\ UNCHANGED ctxVars

\* newContext->prepare returns.
loadScript_prepared ==
    /\ ~ terminated
    /\ ctlPc = "preparing"
    /\ ctlPc' = "lock"
    /\ UNCHANGED << context, script, draftScript, prepared, sampleRate, blockSize,
                    ports, lock, heap, newScript, newContext, result, atCall, prepareArgs,
                    audPc, audCtx, terminated >>
    /\ UNCHANGED << hostVars, ctxVars >>

\* loadScript_lock going on to the swap without waiting for the lock.
loadScript_lock_NoWait ==
    /\ ~ terminated
    /\ ctlPc = "lock"
    /\ lock' = IF lock = "none" THEN "ctl" ELSE lock
    /\ ctlPc' = "swap"
    /\ UNCHANGED << context, script, draftScript, prepared, sampleRate, blockSize,
                    ports, heap, newScript, newContext, result, atCall, prepareArgs,
                    audPc, audCtx, terminated >>
    /\ UNCHANGED << hostVars, ctxVars >>

\* loadScript, line 381: ScopedLock sl (lock).
loadScript_lock ==
    /\ ~ terminated
    /\ ctlPc = "lock"
    /\ lock = "none"
    /\ lock' = "ctl"
    /\ ctlPc' = "swap"
    /\ UNCHANGED << context, script, draftScript, prepared, sampleRate, blockSize,
                    ports, heap, newScript, newContext, result, atCall, prepareArgs,
                    audPc, audCtx, terminated >>
    /\ UNCHANGED << hostVars, ctxVars >>

\* loadScript_swap with the ScopedLock at function scope: the lock is kept.
loadScript_swap_KeepLock ==
    /\ ~ terminated
    /\ ctlPc = "swap"
    /\ context' = newContext
    /\ newContext' = context
    /\ ctlPc' = "release"
    /\ UNCHANGED << script, draftScript, prepared, sampleRate, blockSize,
                    ports, lock, heap, newScript, result, atCall, prepareArgs,
                    audPc, audCtx, terminated >>
    /\ UNCHANGED << hostVars, ctxVars >>

\* loadScript, lines 382-383: context.swap (newContext), and the ScopedLock
\* leaves its scope.
loadScript_swap ==
    /\ ~ terminated
    /\ ctlPc = "swap"
    /\ context' = newContext
    /\ newContext' = context
    /\ lock' = "none"
    /\ ctlPc' = "release"
    /\ UNCHANGED << script, draftScript, prepared, sampleRate, blockSize,
                    ports, heap, newScript, result, atCall, prepareArgs,
                    audPc, audCtx, terminated >>
    /\ UNCHANGED << hostVars, ctxVars >>

\* loadScript, lines 385-387: newContext->release() on the Context that is
\* not installed (the old one, or the one whose load failed).
loadScript_release ==
    /\ ~ terminated
    /\ ctlPc = "release"
    /\ IF newContext # 0
       THEN /\ heap' = [ heap EXCEPT ![newContext] = Context_release(@).ctx ]
            /\ ctlPc' = "releasing"
       ELSE /\ UNCHANGED heap
            /\ ctlPc' = ReturnPc
    /\ UNCHANGED << context, script, draftScript, prepared, sampleRate, blockSize,
                    ports, lock, newScript, newContext, result, atCall, prepareArgs,
                    audPc, audCtx, terminated >>
    /\ UNCHANGED << hostVars, ctxVars >>

\* loadScript, lines 388-391: newContext.reset() destroys it; result is returned.
loadScript_return ==
    /\ ~ terminated
    /\ ctlPc = "releasing"
    /\ heap' = Reset(heap, newContext)
    /\ newContext' = 0
    /\ newScript' = NoLua
    /\ ctlPc' = ReturnPc
    /\ UNCHANGED << context, script, draftScript, prepared, sampleRate, blockSize,
                    ports, lock, result, atCall, prepareArgs, audPc, audCtx, terminated >>
    /\ UNCHANGED << hostVars, ctxVars >>


\* ---- control thread: LuaNode::createPorts

\* createPorts, lines 356-360: the list is cleared and the active Context's
\* createPorts is entered; no lock is taken.
createPorts_call ==
    /\ ~ terminated
    /\ ctlPc = "idle"
    /\ IF context = 0
       THEN UNCHANGED << ports, ctlPc, portsAtCall >>
       ELSE /\ portsAtCall' = IF prepared THEN Len(ports) ELSE -1
            /\ ports' = <<>>
            /\ ctlPc' = "createPorts"
    /\ UNCHANGED << context, script, draftScript, prepared, sampleRate, blockSize,
                    lock, heap, newScript, newContext, result, atCall, prepareArgs,
                    audPc, audCtx, terminated, caller, changeSent, stateData,
                    peerScript, hookCall >>
    /\ UNCHANGED ctxVars

\* context->createPorts (ports) appends the ports and returns.
createPorts_return ==
    /\ ~ terminated
    /\ ctlPc = "createPorts"
    /\ ports' = Context_createPorts(heap[context], ports).ports
    /\ portsAtCall' = -1
    /\ ctlPc' = "idle"
    /\ UNCHANGED << context, script, draftScript, prepared, sampleRate, blockSize,
                    lock, heap, newScript, newContext, result, atCall, prepareArgs,
                    audPc, audCtx, terminated, caller, changeSent, stateData,
                    peerScript, hookCall >>
    /\ UNCHANGED ctxVars

\* ---- audio thread

\* prepareToRender, lines 411-414: nothing when prepared; else the rate and
\* block size are stored.  The control thread reads the two fields only
\* after it has read prepared as set, which it is not here, and it reads them
\* one at a time, so the two stores are one step.
prepareToRender(rate, block) ==
    /\ ~ terminated
    /\ audPc = "idle"
    /\ IF prepared
       THEN UNCHANGED << sampleRate, blockSize, audPc >>
       ELSE /\ sampleRate' = rate
            /\ blockSize' = block
            /\ audPc' = "prepare"
    /\ UNCHANGED << context, script, draftScript, prepared, ports, lock, heap,
                    ctlPc, newScript, newContext, result, atCall, prepareArgs,
                    audCtx, terminated >>
    /\ UNCHANGED << hostVars, ctxVars >>

\* prepareToRender, line 415: the active slot is read, with no lock held,
\* and prepare is called on the Context found there.
prepareToRender_context ==
    /\ ~ terminated
    /\ audPc = "prepare"
    /\ audCtx' = context
    /\ hookCall' = "prepare"
    /\ audPc' = "inPrepare"
    /\ UNCHANGED << context, script, draftScript, prepared, sampleRate, blockSize,
                    ports, lock, heap, ctlPc, newScript, newContext, result,
                    atCall, prepareArgs, terminated,
                    caller, changeSent, stateData, peerScript, portsAtCall >>
    /\ UNCHANGED ctxVars

\* Context::prepare, lines 191-195, runs on the Context that was read from
\* the slot.  loadScript may have swapped that Context out, released it and
\* destroyed it in between.  On a destroyed Context the call uses freed
\* memory: it lands on a Context that has the memory now, or it finds
\* nothing to do, or the error of the old script's node_prepare is raised,
\* or the process ends.
prepareToRender_prepare ==
    /\ ~ terminated
    /\ audPc = "inPrepare"
    /\ \/ /\ alive(audCtx)
          /\ LET pr == Context_prepare(heap[audCtx], sampleRate, blockSize)
             IN /\ heap' = [ heap EXCEPT ![audCtx] = pr.ctx ]
                /\ audPc' = IF pr.threw THEN "unwinding" ELSE "preparing"
          /\ UNCHANGED terminated
       \/ /\ ~ alive(audCtx)
          /\ \E c \in Reusing(audCtx) :
                LET pr == Context_prepare(heap[c], sampleRate, blockSize)
                IN /\ heap' = [ heap EXCEPT ![c] = pr.ctx ]
                   /\ audPc' = IF pr.threw THEN "unwinding" ELSE "preparing"
          /\ UNCHANGED terminated
       \/ /\ ~ alive(audCtx)
          /\ audPc' \in { "preparing", "unwinding" }
          /\ UNCHANGED << heap, terminated >>
       \/ /\ ~ alive(audCtx)
          /\ terminated' = TRUE
          /\ UNCHANGED << heap, audPc >>
    /\ UNCHANGED << context, script, draftScript, prepared, sampleRate, blockSize,
                    ports, lock, ctlPc, newScript, newContext, result, atCall,
                    prepareArgs, audCtx >>
    /\ UNCHANGED << hostVars, ctxVars >>

\* The error of node_prepare leaves prepareToRender: line 416 is not reached
\* and prepared stays false.  When loadScript has destroyed the Context
\* while prepare ran on it, the error is raised and unwound on freed memory:
\* it leaves the call as if nothing had happened, or it is lost and the call
\* goes on to line 416, or the process ends.
prepareToRender_throw ==
    /\ ~ terminated
    /\ audPc = "unwinding"
    /\ \/ /\ audPc' = "idle"
          /\ audCtx' = 0
          /\ UNCHANGED << prepared, terminated >>
       \/ /\ ~ alive(audCtx)
          /\ prepared' = TRUE
          /\ audPc' = "idle"
          /\ audCtx' = 0
          /\ UNCHANGED terminated
       \/ /\ ~ alive(audCtx)
          /\ terminated' = TRUE
          /\ UNCHANGED << prepared, audPc, audCtx >>
    /\ UNCHANGED << context, script, draftScript, sampleRate, blockSize,
                    ports, lock, heap, ctlPc, newScript, newContext, result,
                    atCall, prepareArgs >>
    /\ UNCHANGED << hostVars, ctxVars >>

\* Context::prepare, line 197, and prepareToRender, line 416: the rest of
\* prepare runs and returns, prepared is set.  When loadScript has destroyed
\* the Context while prepare ran on it, the rest of prepare uses freed
\* memory: the call returns as if nothing had happened, or an error is
\* raised from the memory and leaves prepareToRender, or the process ends.
prepareToRender_return ==
    /\ ~ terminated
    /\ audPc = "preparing"
    /\ \/ /\ prepared' = TRUE
          /\ audPc' = "idle"
          /\ audCtx' = 0
          /\ UNCHANGED terminated
       \/ /\ ~ alive(audCtx)
          /\ audPc' = "idle"
          /\ audCtx' = 0
          /\ UNCHANGED << prepared, terminated >>
       \/ /\ ~ alive(audCtx)
          /\ terminated' = TRUE
          /\ UNCHANGED << prepared, audPc, audCtx >>
    /\ UNCHANGED << context, script, draftScript, sampleRate, blockSize, ports,
                    lock, heap, ctlPc, newScript, newContext, result, atCall,
                    prepareArgs >>
    /\ UNCHANGED << hostVars, ctxVars >>

\* releaseResources, lines 421-423: nothing when not prepared; else prepared
\* is cleared.
releaseResources ==
    /\ ~ terminated
    /\ audPc = "idle"
    /\ IF ~ prepared
       THEN UNCHANGED << prepared, audPc >>
       ELSE /\ prepared' = FALSE
            /\ audPc' = "release"
    /\ UNCHANGED << context, script, draftScript, sampleRate, blockSize, ports,
                    lock, heap, ctlPc, newScript, newContext, result, atCall,
                    prepareArgs, audCtx, terminated >>
    /\ UNCHANGED << hostVars, ctxVars >>

\* releaseResources, line 424: the active slot is read, with no lock held,
\* and release is called on the Context found there.
releaseResources_context ==
    /\ ~ terminated
    /\ audPc = "release"
    /\ audCtx' = context
    /\ hookCall' = "release"
    /\ audPc' = "inRelease"
    /\ UNCHANGED << context, script, draftScript, prepared, sampleRate, blockSize,
                    ports, lock, heap, ctlPc, newScript, newContext, result,
                    atCall, prepareArgs, terminated,
                    caller, changeSent, stateData, peerScript, portsAtCall >>
    /\ UNCHANGED ctxVars

\* Context::release, lines 202-206, runs on the Context that was read from
\* the slot.  On a Context that loadScript has destroyed in between the call
\* uses freed memory: it lands on a Context that has the memory now, or it
\* finds nothing to do, or the process ends.
releaseResources_release ==
    /\ ~ terminated
    /\ audPc = "inRelease"
    /\ \/ /\ alive(audCtx)
          /\ heap' = [ heap EXCEPT ![audCtx] = Context_release(@).ctx ]
          /\ audPc' = "releasing"
          /\ UNCHANGED terminated
       \/ /\ ~ alive(audCtx)
          /\ \E c \in Reusing(audCtx) :
                heap' = [ heap EXCEPT ![c] = Context_release(@).ctx ]
          /\ audPc' = "releasing"
          /\ UNCHANGED terminated
       \/ /\ ~ alive(audCtx)
          /\ audPc' = "releasing"
          /\ UNCHANGED << heap, terminated >>
       \/ /\ ~ alive(audCtx)
          /\ terminated' = TRUE
          /\ UNCHANGED << heap, audPc >>
    /\ UNCHANGED << context, script, draftScript, prepared, sampleRate, blockSize,
                    ports, lock, ctlPc, newScript, newContext, result, atCall,
                    prepareArgs, audCtx >>
    /\ UNCHANGED << hostVars, ctxVars >>

\* Context::release, line 208, and the return of releaseResources.  When
\* loadScript has destroyed the Context while release ran on it, the rest of
\* release uses freed memory: the call returns as if nothing had happened, or
\* the process ends.
releaseResources_return ==
    /\ ~ terminated
    /\ audPc = "releasing"
    /\ \/ /\ audPc' = "idle"
          /\ audCtx' = 0
          /\ UNCHANGED terminated
       \/ /\ ~ alive(audCtx)
          /\ terminated' = TRUE
          /\ UNCHANGED << audPc, audCtx >>
    /\ UNCHANGED << context, script, draftScript, prepared, sampleRate, blockSize,
                    ports, lock, heap, ctlPc, newScript, newContext, result,
                    atCall, prepareArgs >>
    /\ UNCHANGED << hostVars, ctxVars >>

\* render, lines 429-430: the lock is taken and the active Context's render
\* is entered, whether the node is prepared or not.
render_call ==
    /\ ~ terminated
    /\ audPc = "idle"
    /\ lock = "none"
    /\ lock' = "audio"
    /\ audCtx' = context
    /\ audPc' = "render"
    /\ UNCHANGED << context, script, draftScript, prepared, sampleRate, blockSize,
                    ports, heap, ctlPc, newScript, newContext, result, atCall,
                    prepareArgs, terminated >>
    /\ UNCHANGED << hostVars, ctxVars >>

\* Context::render runs the render function and returns, the lock is
\* released; an error raised by the render function meets noexcept and
\* terminates the process.
render_return ==
    /\ ~ terminated
    /\ audPc = "render"
    /\ LET r == Context_render(heap[audCtx])
       IN IF r.threw
          THEN /\ terminated' = TRUE
               /\ UNCHANGED << heap, lock, audPc, audCtx >>
          ELSE /\ heap' = [ heap EXCEPT ![audCtx] = r.ctx ]
               /\ lock' = "none"
               /\ audPc' = "idle"
               /\ audCtx' = 0
               /\ UNCHANGED terminated
    /\ UNCHANGED << context, script, draftScript, prepared, sampleRate, blockSize,
                    ports, ctlPc, newScript, newContext, result, atCall,
                    prepareArgs >>
    /\ UNCHANGED << hostVars, ctxVars >>

\* ---- persistence: LuaNode::getState, LuaNode::setState

\* ValueTree::setProperty: the value replaces the one stored under the key,
\* or is appended under a new key.
setProperty(tree, key, value) ==
    IF \E i \in 1..Len(tree.props) : tree.props[i].key = key
    THEN [ tree EXCEPT !.props =
             [ i \in 1..Len(tree.props) |->
                 IF tree.props[i].key = key
                 THEN [ key |-> key, value |-> value ]
                 ELSE tree.props[i] ] ]
    ELSE [ tree EXCEPT !.props = Append(@, [ key |-> key, value |-> value ]) ]

\* state[key].toString(): the text stored under the key, the empty text
\* when the tree has no such property.
getProperty(tree, key) ==
    LET hits == { i \in 1..Len(tree.props) : tree.props[i].key = key }
    IN IF hits = {}
       THEN NoLua
       ELSE tree.props[CHOOSE i \in hits : \A j \in hits : i <= j].value

\* ValueTree::readFromData and isValid: a block that holds no tree gives
\* an invalid tree.
readFromData(data) == IF data.type = "" THEN EmptyBlock ELSE data

isValid(tree) == tree.type # ""

\* getState storing the draft text only.
getState_DraftOnly(scriptText, draftText) ==
    setProperty([ type |-> "lua", props |-> <<>> ], "draft", draftText)

\* getState, lines 445-449: a tree "lua" with the committed text under
\* "script" and the draft text under "draft", written to the block.
getState(scriptText, draftText) ==
    setProperty(setProperty([ type |-> "lua", props |-> <<>> ],
                            "script", scriptText),
                "draft", draftText)

\* setState, lines 435-438: the tree is read; when it is valid loadScript
\* is called with the text stored under "script".
setState_call(data) ==
    /\ ~ terminated
    /\ ctlPc = "idle"
    /\ Len(heap) < MaxContexts
    /\ changeSent' = FALSE
    /\ LET state == readFromData(data)
       IN IF isValid(state)
          THEN /\ newScript' = getProperty(state, "script")
               /\ caller' = "setState"
               /\ ctlPc' = "setState"
          ELSE UNCHANGED << newScript, caller, ctlPc >>
    /\ UNCHANGED << context, script, draftScript, prepared, sampleRate, blockSize,
                    ports, lock, heap, newContext, result, atCall, prepareArgs,
                    audPc, audCtx, terminated, stateData, peerScript, portsAtCall, hookCall >>
    /\ UNCHANGED ctxVars

\* setState, line 439: loadScript has returned; sendChangeMessage().
setState_sendChange ==
    /\ ~ terminated
    /\ ctlPc = "sendChange"
    /\ changeSent' = TRUE
    /\ caller' = "none"
    /\ ctlPc' = "idle"
    /\ UNCHANGED << context, script, draftScript, prepared, sampleRate, blockSize,
                    ports, lock, heap, newScript, newContext, result, atCall, prepareArgs,
                    audPc, audCtx, terminated, stateData, peerScript, portsAtCall, hookCall >>
    /\ UNCHANGED ctxVars

\* ---- destruction

\* LuaNode::~LuaNode, lines 349-352: context.reset() destroys the active
\* Context.  The graph removes a node on which no call is in progress.
LuaNode_destructor ==
    /\ ~ terminated
    /\ ctlPc = "idle"
    /\ audPc = "idle"
    /\ heap' = Reset(heap, context)
    /\ context' = 0
    /\ ctlPc' = "destroyed"
    /\ UNCHANGED << script, draftScript, prepared, sampleRate, blockSize,
                    ports, lock, newScript, newContext, result, atCall, prepareArgs,
                    audPc, audCtx, terminated >>
    /\ UNCHANGED << hostVars, ctxVars >>

\* ---- the peer: a second LuaNode, of which only the committed text is kept

\* loadScript on the peer, run to its end: the text is committed when
\* validate and the load into the new Context succeed.  The peer's draft
\* text is its committed text (line 378).  The peer and the node share
\* nothing, so the peer's calls are all made before the node's.
peer_loadScript(s, envValidate, envLoad) ==
    /\ stateData = EmptyBlock
    /\ Len(heap) = 2 /\ ctlPc = "idle" /\ audPc = "idle" /\ ~ prepared /\ ports = <<>>
    /\ peerScript' = IF /\ Context_validate(s, envValidate).ok
                        /\ Context_load(NewContext, s, envLoad).result.ok
                     THEN s
                     ELSE peerScript
    /\ UNCHANGED << context, script, draftScript, prepared, sampleRate, blockSize,
                    ports, lock, heap, ctlPc, newScript, newContext, result, atCall, prepareArgs,
                    audPc, audCtx, terminated, caller, changeSent, stateData,
                    portsAtCall, hookCall >>
    /\ UNCHANGED ctxVars

\* getState on the peer: its state is written to the block.
peer_getState ==
    /\ stateData = EmptyBlock
    /\ stateData' = getState(peerScript, peerScript)
    /\ UNCHANGED << context, script, draftScript, prepared, sampleRate, blockSize,
                    ports, lock, heap, ctlPc, newScript, newContext, result, atCall, prepareArgs,
                    audPc, audCtx, terminated, caller, changeSent, peerScript,
                    portsAtCall, hookCall >>
    /\ UNCHANGED ctxVars

Next ==
    \/ \E s \in NodeScripts, envOk \in BOOLEAN : loadScript_validate(s, envOk)
    \/ \E envOk \in BOOLEAN : loadScript_load(envOk)
    \/ loadScript_checkPrepared
    \/ \E first \in { "rate", "block" } : loadScript_readArg(first)
    \/ loadScript_prepare
    \/ loadScript_throw
    \/ loadScript_prepared
    \/ loadScript_lock
    \/ loadScript_swap
    \/ loadScript_release
    \/ loadScript_return
    \/ createPorts_call
    \/ createPorts_return
    \/ \E f \in Formats : prepareToRender(f[1], f[2])
    \/ prepareToRender_context
    \/ prepareToRender_prepare
    \/ prepareToRender_throw
    \/ prepareToRender_return
    \/ releaseResources
    \/ releaseResources_context
    \/ releaseResources_release
    \/ releaseResources_return
    \/ render_call
    \/ render_return

Spec == Init /\ [][Next]_vars

\* The node used by one caller at a time: an operation of one thread is
\* called while no operation of the other is in progress.  The host saves
\* the peer's state and restores it into the node.
NextSeq ==
    \/ audPc = "idle" /\ \E s \in NodeScripts, envOk \in BOOLEAN :
                             loadScript_validate(s, envOk)
    \/ \E envOk \in BOOLEAN : loadScript_load(envOk)
    \/ loadScript_checkPrepared
    \/ \E first \in { "rate", "block" } : loadScript_readArg(first)
    \/ loadScript_prepare
    \/ loadScript_throw
    \/ loadScript_prepared
    \/ loadScript_lock
    \/ loadScript_swap
    \/ loadScript_release
    \/ loadScript_return
    \/ audPc = "idle" /\ createPorts_call
    \/ createPorts_return
    \/ ctlPc = "idle" /\ \E f \in Formats : prepareToRender(f[1], f[2])
    \/ prepareToRender_context
    \/ prepareToRender_prepare
    \/ prepareToRender_throw
    \/ prepareToRender_return
    \/ ctlPc = "idle" /\ releaseResources
    \/ releaseResources_context
    \/ releaseResources_release
    \/ releaseResources_return
    \/ ctlPc = "idle" /\ render_call
    \/ render_return
    \/ audPc = "idle" /\ setState_call(stateData)
    \/ setState_sendChange
    \/ \E s \in NodeScripts, envValidate \in BOOLEAN, envLoad \in BOOLEAN :
           peer_loadScript(s, envValidate, envLoad)
    \/ peer_getState
    \/ LuaNode_destructor

SpecSeq == Init /\ [][NextSeq]_vars


\* ------------------------------------------------- one Context, sequentially

\* Parameter declarations: a plain name, a name to be trimmed, lower-cased
\* and underscored, and a declaration with no name and no flow.
ParamChoices ==
    { [ name |-> << <<"V","o","l","u","m","e">> >>, flow |-> "input" ],
      [ name |-> << <<" ","D","r","y"," ","W","e","t"," ">> >>, flow |-> "output" ],
      [ name |-> <<>>, flow |-> "nil" ] }

ParamLists == UNION { [ 1..k -> ParamChoices ] : k \in 0..MaxParams }

Decls == [ audio_ins : 0..MaxPorts, audio_outs : 0..MaxPorts,
           midi_ins : 0..MaxMidi, midi_outs : 0..MaxMidi ]

\* Well-behaved scripts over every port and parameter declaration.
PortScripts ==
    { [ text |-> "ports", exec |-> "ok", io |-> io, decl |-> d,
        params |-> "list", plist |-> pl, pfail |-> 0,
        prepare |-> "ok", release |-> "ok", render |-> "ok", raiseAt |-> 0 ] :
      io \in { "map", "array" }, d \in Decls, pl \in ParamLists }
    \cup
    { [ text |-> "ports", exec |-> "ok", io |-> "none", decl |-> NoDecl,
        params |-> "list", plist |-> pl, pfail |-> 0,
        prepare |-> "ok", release |-> "ok", render |-> "ok", raiseAt |-> 0 ] :
      pl \in ParamLists }

TwoParams == << [ name |-> << <<"G","a","i","n">> >>, flow |-> "input" ],
                [ name |-> << <<"M","i","x">> >>, flow |-> "output" ] >>

\* Scripts over every behaviour of the chunk and of the entry points.
BehaviourScripts ==
    { [ text |-> "behaviour", exec |-> ex, io |-> io,
        decl |-> IF io = "map"
                 THEN [ audio_ins |-> 1, audio_outs |-> 2, midi_ins |-> 1,
                        midi_outs |-> 0 ]
                 ELSE NoDecl,
        params |-> pp[1], plist |-> pp[2], pfail |-> pp[3],
        prepare |-> pr, release |-> rl, render |-> rn[1], raiseAt |-> rn[2] ] :
      ex \in { "ok", "error" },
      io \in { "none", "map", "raise" },
      pp \in { << "none", <<>>, 0 >>, << "raise", <<>>, 0 >>,
               << "list", TwoParams, 0 >>, << "list", TwoParams, 1 >>,
               << "list", TwoParams, 2 >> },
      pr \in { "none", "ok", "raise" },
      rl \in { "none", "ok", "raise" },
      rn \in { << "none", 0 >>, << "ok", 0 >>, << "raise", 1 >>, << "raise", 2 >> } }

CtxScripts == PortScripts \cup BehaviourScripts \cup { NoLua, defaultScript }

InitCtx ==
    /\ NodeInit
    /\ tScript \in CtxScripts
    /\ tCtx = NewContext
    /\ tPorts = <<>>
    /\ tPc = "validate"
    /\ tVal = ResultFail("not validated")
    /\ tErr = ""
    /\ tRes = ResultFail("not loaded")
    /\ tLoadCalls = 0
    /\ tLoadOks = 0

\* Context::validate (script).
test_validate ==
    /\ ~ terminated
    /\ tPc = "validate"
    /\ tVal' = Context_validate(tScript, TRUE)
    /\ tPc' = "load"
    /\ UNCHANGED << tScript, tCtx, tPorts, tErr, tRes, tLoadCalls, tLoadOks >>
    /\ UNCHANGED nodeVars

\* ctx.load (script) on the fresh Context.
test_load ==
    /\ ~ terminated
    /\ tPc = "load"
    /\ LET l == Context_load(tCtx, tScript, TRUE)
       IN /\ tCtx' = l.ctx
          /\ tRes' = l.result
          /\ tLoadCalls' = tLoadCalls + 1
          /\ tLoadOks' = IF l.result.ok THEN tLoadOks + 1 ELSE tLoadOks
          /\ IF l.result.ok
             THEN tPc' = "createPorts" /\ UNCHANGED tErr
             ELSE tPc' = "failed" /\ tErr' = l.result.msg
    /\ UNCHANGED << tScript, tPorts, tVal >>
    /\ UNCHANGED nodeVars

\* ctx.createPorts (ports) on an empty PortList.
test_createPorts ==
    /\ ~ terminated
    /\ tPc = "createPorts"
    /\ LET cp == Context_createPorts(tCtx, tPorts)
       IN /\ tPorts' = cp.ports
          /\ IF cp.threw
             THEN tPc' = "failed" /\ tErr' = cp.msg
             ELSE tPc' = "prepare" /\ UNCHANGED tErr
    /\ UNCHANGED << tScript, tCtx, tVal, tRes, tLoadCalls, tLoadOks >>
    /\ UNCHANGED nodeVars

\* ctx.prepare (rate, block).
test_prepare ==
    /\ ~ terminated
    /\ tPc = "prepare"
    /\ LET pr == Context_prepare(tCtx, ValidateRate, ValidateBlock)
       IN /\ tCtx' = pr.ctx
          /\ IF pr.threw
             THEN tPc' = "failed" /\ tErr' = pr.msg
             ELSE tPc' = "render" /\ UNCHANGED tErr
    /\ UNCHANGED << tScript, tPorts, tVal, tRes, tLoadCalls, tLoadOks >>
    /\ UNCHANGED nodeVars

\* ctx.render (audio, midi), once.  An error raised by the render function
\* meets noexcept and terminates the process: no call follows.
test_render ==
    /\ ~ terminated
    /\ tPc = "render"
    /\ LET rn == Context_render(tCtx)
       IN IF rn.threw
          THEN /\ terminated' = TRUE
               /\ UNCHANGED << tCtx, tPc >>
          ELSE /\ tCtx' = rn.ctx
               /\ tPc' = "release"
               /\ UNCHANGED terminated
    /\ UNCHANGED << tScript, tPorts, tVal, tErr, tRes, tLoadCalls, tLoadOks >>
    /\ UNCHANGED runVars

\* ctx.release().
test_release ==
    /\ ~ terminated
    /\ tPc = "release"
    /\ LET rl == Context_release(tCtx)
       IN /\ tCtx' = rl.ctx
          /\ IF rl.threw
             THEN tPc' = "failed" /\ tErr' = rl.msg
             ELSE tPc' = "done" /\ UNCHANGED tErr
    /\ UNCHANGED << tScript, tPorts, tVal, tRes, tLoadCalls, tLoadOks >>
    /\ UNCHANGED nodeVars

\* How many load calls are made on the Context under test.
MaxLoads == 2

\* Script texts handed to the further load calls.
ReloadScripts == { defaultScript, brokenScript, noRenderScript }

\* ctx.load (s) once more, at any later point of the Context's life.
test_loadAgain(s) ==
    /\ ~ terminated
    /\ tPc \in { "createPorts", "prepare", "render", "release", "done", "failed" }
    /\ tLoadCalls < MaxLoads
    /\ LET l == Context_load(tCtx, s, TRUE)
       IN /\ tCtx' = l.ctx
          /\ tRes' = l.result
          /\ tLoadCalls' = tLoadCalls + 1
          /\ tLoadOks' = IF l.result.ok THEN tLoadOks + 1 ELSE tLoadOks
    /\ UNCHANGED << tScript, tPorts, tPc, tVal, tErr >>
    /\ UNCHANGED nodeVars

NextCtx ==
    \/ test_validate
    \/ test_load
    \/ \E s \in ReloadScripts : test_loadAgain(s)
    \/ test_createPorts
    \/ test_prepare
    \/ test_render
    \/ test_release

SpecCtx == InitCtx /\ [][NextCtx]_vars


\* ------------------------------------------------------------------ claims

\* C1: loadScript is all-or-nothing.  While the result of the last
\* loadScript call is a failure (the text was empty, validation failed, or
\* the load into the fresh Context failed), the committed text, the draft
\* text and the active Context are those the node had when loadScript was
\* called, and the active Context is alive and loaded.
C1_LoadScriptAllOrNothing ==
    ~ result.ok =>
        /\ script = atCall.script
        /\ draftScript = atCall.draft
        /\ context = atCall.context
        /\ alive(context)
        /\ ready(heap[context])

\* A loadScript call has returned a failure of its second load (a Context
\* was allocated during the call) on a node whose script had been replaced.
C1_Witness ==
    /\ ctlPc = "idle"
    /\ ~ result.ok
    /\ Len(heap) > atCall.allocated
    /\ script # defaultScript

\* C2: hot-swap is atomic for the render thread.  While a render call is in
\* progress it holds the lock, the Context it runs on is the one in the
\* active slot and that Context is not destroyed.
C2_RenderOnOneLiveContext ==
    audPc = "render" =>
        /\ lock = "audio"
        /\ context = audCtx
        /\ alive(audCtx)

\* A render call is in progress on a Context installed by an earlier swap
\* while loadScript waits for the lock with the next Context.
C2_Witness ==
    /\ audPc = "render"
    /\ ctlPc = "lock"
    /\ context > 2
    /\ newContext > context

\* C3 (as claimed): whenever the node is prepared, the active Context has
\* been prepared with the node's current sample rate and block size.
C3_PreparedNodeHasPreparedContext ==
    prepared =>
        /\ heap[context].life = "prepared"
        /\ heap[context].rate = sampleRate
        /\ heap[context].block = blockSize

\* C4 (as claimed): an error raised by a script's node_render during a live
\* render call never leaves render: the process is not terminated by it.
C4_RenderErrorContained ==
    ~ (terminated /\ audPc = "render" /\ heap[audCtx].renderf)

\* C5 (as claimed): a Context is ready only if its load resolved a callable
\* render entry point, and the active Context always has one.
C5_ReadyOnlyWithRenderEntryPoint ==
    /\ \A c \in 1..Len(heap) : ready(heap[c]) => heap[c].renderf
    /\ heap[context].renderf

\* C6 (as claimed): validate succeeds if and only if a fresh Context loads
\* the text, creates its ports, prepares, renders once and releases without
\* an error (an error that ends the process in render included).
C6_ValidateIffLifecycleRuns ==
    (tPc \in { "done", "failed" } \/ terminated) => (tVal.ok <=> tPc = "done")

\* C7 (as claimed): while render runs on a Context, the other thread is not
\* inside prepare, release or createPorts of the same Context.
C7_NoCallConcurrentWithRender ==
    audPc = "render" =>
        /\ ~ (ctlPc = "createPorts" /\ context = audCtx)
        /\ ~ (ctlPc \in { "preparing", "releasing" } /\ newContext = audCtx)

\* C8: loadScript holds the lock only for the swap of the active-Context
\* slot: at validation, load, prepare, release and destruction the control
\* thread does not hold it.
C8_LockHeldOnlyForSwap ==
    /\ lock = "ctl" => ctlPc = "swap"
    /\ ctlPc \in { "idle", "load", "checkPrepared", "readArgs", "prepare",
                   "preparing", "unwinding", "lock", "release", "releasing" }
          => lock # "ctl"

\* The control thread holds the lock for the swap, with the new Context
\* already prepared and the old one not yet released.
C8_Witness ==
    /\ lock = "ctl"
    /\ ctlPc = "swap"
    /\ heap[newContext].life = "prepared"
    /\ heap[context].life = "prepared"

\* createPorts has returned normally on the Context under test.
Ported == tPc \in { "prepare", "render", "release", "done" }

\* The script declares its ports and parameters without raising (a script
\* without node_io_ports or node_params declares none).
Declares(s) == s.io # "raise" /\ s.params \in { "none", "list" } /\ s.pfail = 0

\* The (type, isInput) group of the i-th port of a list of a audio-in,
\* b audio-out, m midi-in, n midi-out ports followed by the parameters.
GroupAt(i, a, b, m, n) ==
    IF i <= a THEN << "Audio", TRUE >>
    ELSE IF i <= a + b THEN << "Audio", FALSE >>
    ELSE IF i <= a + b + m THEN << "Midi", TRUE >>
    ELSE IF i <= a + b + m + n THEN << "Midi", FALSE >>
    ELSE << "Control" >>

\* C9: createPorts on an empty list yields a+b+m+n+p ports, in the group
\* order Audio-in, Audio-out, MIDI-in, MIDI-out, Control, with the indices
\* 0,1,2,... and each port's channel the number of earlier ports of its
\* (type, direction) group.
C9_PortsCountOrderIndexChannel ==
    (Ported /\ Declares(tScript)) =>
        LET a == tScript.decl.audio_ins
            b == tScript.decl.audio_outs
            m == tScript.decl.midi_ins
            n == tScript.decl.midi_outs
            p == Len(tScript.plist)
        IN /\ Len(tPorts) = a + b + m + n + p
           /\ \A i \in 1..Len(tPorts) :
                /\ tPorts[i].index = i - 1
                /\ LET g == GroupAt(i, a, b, m, n)
                   IN /\ tPorts[i].type = g[1]
                      /\ g[1] # "Control" => tPorts[i].isInput = g[2]
                /\ tPorts[i].channel =
                     Cardinality({ j \in 1..(i - 1) :
                                     /\ tPorts[j].type = tPorts[i].type
                                     /\ tPorts[j].isInput = tPorts[i].isInput })

\* createPorts has run on a script with ports in all four groups, declared
\* in an array-style table, and two parameters of different directions.
C9_Witness ==
    /\ Ported
    /\ Declares(tScript)
    /\ tScript.io = "array"
    /\ tScript.decl = [ audio_ins |-> 2, audio_outs |-> 1, midi_ins |-> 1,
                        midi_outs |-> 1 ]
    /\ Len(tScript.plist) = 2
    /\ tScript.plist[1].flow # tScript.plist[2].flow
    /\ Len(tPorts) = 7

Symbols(pl) == [ i \in 1..Len(pl) |-> Text(pl[i].symbol) ]

DefaultSymbols ==
    << "in_1", "in_2", "out_1", "out_2", "midi_in_1", "midi_out_1", "volume" >>

\* C10 (as claimed): for the default script createPorts returns 6 ports
\* with the symbols in_1, in_2, out_1, out_2, midi_in_1, midi_out_1, volume.
C10_DefaultScriptSixPorts ==
    (Ported /\ tScript = defaultScript) =>
        /\ Len(tPorts) = 6
        /\ Symbols(tPorts) = DefaultSymbols

\* C10 (amended): for the default script createPorts returns 7 ports with
\* the symbols in_1, in_2, out_1, out_2, midi_in_1, midi_out_1, volume.
C10_DefaultScriptSevenPorts ==
    (Ported /\ tScript = defaultScript) =>
        /\ Len(tPorts) = 7
        /\ Symbols(tPorts) = DefaultSymbols

\* createPorts has run on the default script.
C10_Witness ==
    /\ Ported
    /\ tScript = defaultScript
    /\ Len(tPorts) > 0

\* C11 (as claimed): state round-trips between nodes.  When the loadScript
\* call made by setState has returned, on a node handed the block that
\* getState wrote for the peer, the node's committed text is the peer's
\* committed text.
C11_StateRoundTrip ==
    ctlPc = "sendChange" => script = peerScript

\* C11 (amended): when the loadScript call made by setState has ended, by
\* returning or by raising the error of the new Context's node_prepare (it
\* then leaves setState too, the text having been committed before), the
\* node's committed text is the peer's committed text whenever the peer's
\* script does not depend on the environment; for a script that does, it is
\* the peer's text if loadScript succeeded, and the text the node had before
\* if loadScript returned a failure.
C11_StateRoundTripWhenLoaded ==
    (caller = "setState" /\ ctlPc \in { "sendChange", "unwinding" }) =>
        /\ peerScript.exec # "env" => script = peerScript
        /\ result.ok => script = peerScript
        /\ ~ result.ok => script = atCall.script

\* setState has replaced the node's script by the different script the peer
\* had committed and saved.
C11_Witness ==
    /\ ctlPc = "sendChange"
    /\ result.ok
    /\ stateData = getState(peerScript, peerScript)
    /\ script = peerScript
    /\ atCall.script # peerScript
    /\ peerScript # defaultScript

\* C12 (as claimed): setState signals change listeners only when its
\* loadScript call succeeded: it sends no change message after a loadScript
\* that returned a failure.
C12_ChangeSentOnlyOnSuccess ==
    [][ (~ changeSent /\ changeSent') => result.ok ]_vars

\* C13 (as claimed): port regeneration is deferred while prepared.  A
\* createPorts call made and returning on a prepared node, whose PortList had
\* been created before, leaves the number of ports as it was when the call
\* was made, whatever loadScript calls came before it.
C13_PortCountFixedWhilePrepared ==
    [][ (ctlPc = "createPorts" /\ ctlPc' = "idle" /\ prepared /\ portsAtCall > 0)
            => Len(ports') = portsAtCall ]_vars

\* C14 (as claimed): createPorts never fails.  A createPorts call on a loaded
\* Context raises no error, whatever node_io_ports and node_params do.
C14_CreatePortsNeverFails ==
    [][ tPc = "createPorts" => tPc' # "failed" ]_vars

\* The message of the interpreter error a script raises first when it is put
\* through the steps of validation (the chunk, node_io_ports, node_prepare,
\* the first node_render, node_release); "" when no step fails.
InterpreterError(s) ==
    IF s.exec = "error" THEN ErrorIn("chunk")
    ELSE IF s.io = "raise" THEN ErrorIn("node_io_ports")
    ELSE IF s.prepare = "raise" THEN ErrorIn("node_prepare")
    ELSE IF s.render = "raise" /\ s.raiseAt = 1 THEN ErrorIn("node_render")
    ELSE IF s.release = "raise" THEN ErrorIn("node_release")
    ELSE ""

\* C15 (as claimed): validation failures carry the underlying message.  When
\* a step of validation fails with an interpreter error of message M,
\* validate returns the failure with message M.
C15_ValidateReturnsInterpreterMessage ==
    (tPc # "validate" /\ tScript.text # "" /\ InterpreterError(tScript) # "")
        => tVal = ResultFail(InterpreterError(tScript))

\* C16 (as claimed): destruction releases the active Context.  When the
\* destructor drops the active Context, release has been called on it, in
\* every state of the node.
C16_DestructorReleasesContext ==
    [][ (ctlPc # "destroyed" /\ ctlPc' = "destroyed")
            => heap[context].life = "released" ]_vars

\* C17: a Context is load-once.  A load call on a Context that holds a loaded
\* script returns the failure "Script already loaded" and leaves the Context,
\* its ready flag and its render function as they were; and of all the load
\* calls made on a Context at most one succeeds.
C17_LoadOnce ==
    [][ tLoadCalls' = tLoadCalls + 1 =>
            /\ ready(tCtx) =>
                  /\ tRes' = ResultFail("Script already loaded")
                  /\ ready(tCtx')
                  /\ tCtx'.renderf = tCtx.renderf
                  /\ tCtx'.renderstdf = tCtx.renderstdf
                  /\ tCtx' = tCtx
            /\ tLoadOks' <= 1 ]_vars

\* A second load call, with another script, has been refused on a Context
\* that was loaded and prepared, and the Context still holds the first script.
C17_Witness ==
    /\ tLoadCalls = 2
    /\ tLoadOks = 1
    /\ tRes = ResultFail("Script already loaded")
    /\ ready(tCtx)
    /\ tCtx.life = "prepared"
    /\ tCtx.lua = tScript
    /\ tScript \notin ReloadScripts

\* The changes of state a step makes to the Contexts allocated before it.
LifeChanges ==
    { << heap[c].life, heap'[c].life >> :
        c \in { d \in 1..Len(heap) : heap'[d].life # heap[d].life } }

\* C18 (as claimed): every Context moves through its states only in the
\* order Unloaded, Loaded, Prepared, Released: release acts on a Context only
\* after prepare has, and prepare does not act on a released Context.
C18_LifecycleInOrder ==
    [][ LifeChanges \subseteq
            { << "loaded", "prepared" >>, << "prepared", "released" >>,
              << "unloaded", "destroyed" >>, << "loaded", "destroyed" >>,
              << "prepared", "destroyed" >>, << "released", "destroyed" >> } ]_vars

\* C18 (amended): prepare and release act only on a Context that has been
\* loaded, and a loaded Context never becomes Unloaded or Loaded again; but a
\* loaded Context is released without having been prepared, and is prepared
\* again after it has been released.
C18_LifecycleAfterLoad ==
    [][ LifeChanges \subseteq
            { << "loaded", "prepared" >>, << "prepared", "released" >>,
              << "loaded", "released" >>, << "released", "prepared" >>,
              << "unloaded", "destroyed" >>, << "loaded", "destroyed" >>,
              << "prepared", "destroyed" >>, << "released", "destroyed" >> } ]_vars

\* loadScript has released the loaded Context it swapped out, on a node that
\* prepareToRender was never called on.
C18_Witness ==
    /\ ctlPc = "releasing"
    /\ newContext # 0
    /\ ready(heap[newContext])
    /\ heap[newContext].life = "released"
    /\ sampleRate = 0
    /\ audPc = "idle"

\* C19: validation works only on its own throwaway Context.  The step of
\* loadScript that calls validate, whether validate succeeds or fails, leaves
\* the active Context slot, every allocated Context (no operation is invoked
\* on the active one), the committed and the draft text, the prepared flag and
\* the PortList unchanged.
C19_ValidateLeavesNodeAlone ==
    [][ (ctlPc = "idle" /\ (ctlPc' = "load" \/ result' # result \/ atCall' # atCall))
            => UNCHANGED << context, heap, script, draftScript, prepared, ports >>
       ]_vars

\* validate has accepted another script on a prepared node that has its
\* ports, while the audio thread renders on the active Context.
C19_Witness ==
    /\ ctlPc = "load"
    /\ result.ok
    /\ newScript # script
    /\ prepared
    /\ ports # <<>>
    /\ audPc = "render"
    /\ heap[context].life = "prepared"

\* C20 (as claimed): no operation runs on a destroyed Context.  In every
\* interleaving, the Context that a prepare, render or release call of the
\* audio thread has read from the active slot and runs on, and the Context a
\* createPorts call runs on, is not destroyed by loadScript.
C20_NoCallOnDestroyedContext ==
    /\ audPc \in { "inPrepare", "preparing", "unwinding", "inRelease", "releasing",
                   "render" } => alive(audCtx)
    /\ ctlPc = "createPorts" => alive(context)

\* C21 (as claimed): prepareToRender on a prepared node and releaseResources
\* on an unprepared node do nothing, so the prepare and release calls the two
\* hooks forward to the active Context strictly alternate, starting with
\* prepare: prepare is forwarded only by a prepareToRender entered on an
\* unprepared node and after no call or a release, release only by a
\* releaseResources entered on a prepared node and after a prepare, and the
\* rate and block size of a prepared node stay as they are.
C21_HookCallsAlternate ==
    [][ /\ (audPc = "idle" /\ audPc' = "prepare") => ~ prepared
        /\ (audPc = "prepare" /\ audPc' = "inPrepare")
              => hookCall \in { "none", "release" }
        /\ (audPc = "idle" /\ audPc' = "release") => prepared
        /\ (audPc = "release" /\ audPc' = "inRelease") => hookCall = "prepare"
        /\ (prepared /\ prepared')
              => (sampleRate' = sampleRate /\ blockSize' = blockSize) ]_vars

\* C22 (as claimed): whenever no loadScript call is in progress (after
\* construction and after every loadScript call has ended), the active slot
\* holds one live, loaded Context, the committed text is the text that
\* Context was loaded from, and after a successful call the draft text is the
\* committed text.
C22_ActiveContextRunsCommittedText ==
    ctlPc = "idle" =>
        /\ context # 0
        /\ alive(context)
        /\ ready(heap[context])
        /\ heap[context].lua = script
        /\ result.ok => draftScript = script

=========================================================================
